---- MODULE Spec2Model ----
(***************************************************************************)
(* Restaurant table placement: the availability calculator, the table      *)
(* matcher, the conflict checker, the create-reservation handler and the   *)
(* cancel-reservation handler.                                             *)
(*                                                                         *)
(* Instants are seconds since 00:00:00 of date 0.  A date is a day index.  *)
(***************************************************************************)
EXTENDS Integers, Sequences, FiniteSets, TLC

VARIABLES
    cfg,            \* the restaurant row with its tables, hours, rules, policy
    reservations,   \* the Reservation table, in insertion order (id = index)
    now,            \* the wall clock read by new Date()
    calls,          \* the POST /api/reservations requests, in order of arrival
    avail,          \* the last calculateAvailability request and its result
    cancelResp      \* the last PATCH /api/reservations/[id] request and its response

vars == <<cfg, reservations, now, calls, avail, cancelResp>>

----------------------------------------------------------------------------
(* Bounds *)

NumCalls == 2           \* POST requests per behaviour, all of them concurrent

----------------------------------------------------------------------------
(* Time *)

SecondsPerMinute == 60
SecondsPerHour == 3600
SecondsPerDay == 86400

At(d, h, m) == d * SecondsPerDay + h * SecondsPerHour + m * SecondsPerMinute

addMinutes(t, m) == t + m * SecondsPerMinute
isBefore(a, b) == a < b
isAfter(a, b) == a > b

\* format(currentTime, 'HH:mm'): the hour and minute of the day, the date dropped
format(t) == <<(t % SecondsPerDay) \div SecondsPerHour,
               (t % SecondsPerHour) \div SecondsPerMinute>>

Min(a, b) == IF a <= b THEN a ELSE b

Range(seq) == {seq[i] : i \in DOMAIN seq}

----------------------------------------------------------------------------
(* Data model *)

NoValue == "null"          \* a null id
None == <<>>               \* a null or absent optional value
Some(x) == <<x>>

ReservationStatus == {"PENDING", "CONFIRMED", "CANCELLED", "COMPLETED", "NO_SHOW"}
ActiveStatus == {"PENDING", "CONFIRMED"}

Table(id, cmin, cmax, j) ==
    [id |-> id, capacityMin |-> cmin, capacityMax |-> cmax, isJoinable |-> j]

OperatingHours(dow, oh, om, ch, cm) ==
    [dayOfWeek |-> dow, openTime |-> <<oh, om>>, closeTime |-> <<ch, cm>>]

TurnTimeRule(pmin, pmax, t) ==
    [partySizeMin |-> pmin, partySizeMax |-> pmax, turnTimeInMinutes |-> t]

CancellationPolicy(h, allow) ==
    [hoursBeforeNoFee |-> h, feePercentage |-> 10, fixedFeeAmount |-> 25,
     allowOnlineCancellation |-> allow]

Reservation(tid, t, p, tt, st) ==
    [tableId |-> tid, reservationTime |-> t, partySize |-> p,
     turnTimeUsed |-> tt, status |-> st]

RestaurantId == "r1"
UnknownRestaurantId == "r0"

Dates == {0, 1}

----------------------------------------------------------------------------
(* Conflict checker and table matcher (src/lib/availability.ts) *)

\* the first of a set of indices in list order, 0 when the set is empty
FirstIndex(hits) ==
    IF hits = {} THEN 0 ELSE CHOOSE i \in hits : \A j \in hits : i <= j

\* a conflict test on closed intervals: touching intervals count as overlapping
isTableAvailable_closed(table, rs, slotStartTime, slotEndTime) ==
    LET conflicting(r) ==
            /\ r.tableId = table.id
            /\ slotStartTime <= addMinutes(r.reservationTime, r.turnTimeUsed)
            /\ slotEndTime >= r.reservationTime
    IN  Len(SelectSeq(rs, conflicting)) = 0

\* a conflict test that only looks at where the slot starts
isTableAvailable_startInside(table, rs, slotStartTime, slotEndTime) ==
    LET conflicting(r) ==
            /\ r.tableId = table.id
            /\ r.reservationTime <= slotStartTime
            /\ isBefore(slotStartTime, addMinutes(r.reservationTime, r.turnTimeUsed))
    IN  Len(SelectSeq(rs, conflicting)) = 0

isTableAvailable(table, rs, slotStartTime, slotEndTime) ==
    LET conflicting(r) ==
            /\ r.tableId = table.id
            /\ isBefore(slotStartTime, addMinutes(r.reservationTime, r.turnTimeUsed))
            /\ isAfter(slotEndTime, r.reservationTime)
        conflictingReservations == SelectSeq(rs, conflicting)
    IN  Len(conflictingReservations) = 0

\* a matcher that takes the first free table whatever its capacity
findAvailableTableForSlot_anyFree(tables, rs, slotStartTime, slotEndTime, partySize) ==
    LET free(t) == isTableAvailable(t, rs, slotStartTime, slotEndTime)
        i0 == FirstIndex({i \in DOMAIN tables : free(tables[i])})
    IN  IF i0 # 0 THEN tables[i0].id ELSE NoValue

\* a matcher that joins any two free tables, flagged joinable or not
findAvailableTableForSlot_joinAnyPair(tables, rs, slotStartTime, slotEndTime, partySize) ==
    LET free(t) == isTableAvailable(t, rs, slotStartTime, slotEndTime)
        i1 == FirstIndex({i \in DOMAIN tables :
                  /\ tables[i].capacityMin <= partySize
                  /\ tables[i].capacityMax >= partySize
                  /\ free(tables[i])})
        i2 == FirstIndex({i \in DOMAIN tables :
                  partySize <= tables[i].capacityMax /\ free(tables[i])})
        i3 == FirstIndex({i \in DOMAIN tables : \E j \in DOMAIN tables :
                  /\ i < j
                  /\ tables[i].capacityMin + tables[j].capacityMin <= partySize
                  /\ partySize <= tables[i].capacityMax + tables[j].capacityMax
                  /\ free(tables[i])
                  /\ free(tables[j])})
    IN  IF i1 # 0 THEN tables[i1].id
        ELSE IF i2 # 0 THEN tables[i2].id
        ELSE IF i3 # 0 THEN tables[i3].id
        ELSE NoValue

findAvailableTableForSlot(tables, rs, slotStartTime, slotEndTime, partySize) ==
    LET free(t) == isTableAvailable(t, rs, slotStartTime, slotEndTime)
        ideal(t) == t.capacityMin <= partySize /\ t.capacityMax >= partySize /\ free(t)
        larger(t) == partySize <= t.capacityMax /\ free(t)
        isJoinable(t) == t.isJoinable
        joinableTables == SelectSeq(tables, isJoinable)
        fits(i, j) ==
            LET table1 == joinableTables[i]
                table2 == joinableTables[j]
                minCombinedCapacity == table1.capacityMin + table2.capacityMin
                maxCombinedCapacity == table1.capacityMax + table2.capacityMax
            IN  /\ minCombinedCapacity <= partySize
                /\ partySize <= maxCombinedCapacity
                /\ free(table1)
                /\ free(table2)
        pairs == {ij \in (DOMAIN joinableTables) \X (DOMAIN joinableTables) :
                    ij[1] < ij[2] /\ fits(ij[1], ij[2])}
        \* the loops run i ascending, then j ascending
        firstPair == CHOOSE ij \in pairs : \A kl \in pairs :
                        ij[1] < kl[1] \/ (ij[1] = kl[1] /\ ij[2] <= kl[2])
        i1 == FirstIndex({i \in DOMAIN tables : ideal(tables[i])})
        i2 == FirstIndex({i \in DOMAIN tables : larger(tables[i])})
    IN  IF i1 # 0 THEN tables[i1].id
        ELSE IF i2 # 0 THEN tables[i2].id
        ELSE IF pairs # {} THEN joinableTables[firstPair[1]].id
        ELSE NoValue

----------------------------------------------------------------------------
(* Availability calculator (src/lib/availability.ts) *)

maxSlots == 30
SlotStepMinutes == 30
DefaultTurnTime == 120
MaxTurnTime == 480

Slot(t, tableId) ==
    [time |-> format(t), available |-> tableId # NoValue, tableId |-> tableId]

\* a slot loop that stops before lastBookingTime instead of at it
RECURSIVE generateSlots_strict(_, _, _, _, _, _, _, _)
generateSlots_strict(currentTime, slotCount, slots, lastBookingTime, turnTime, tables, rs, partySize) ==
    IF isBefore(currentTime, lastBookingTime) /\ slotCount < maxSlots
    THEN LET slotEndTime == addMinutes(currentTime, turnTime)
             availableTable ==
                 findAvailableTableForSlot(tables, rs, currentTime, slotEndTime, partySize)
             pushed == Append(slots, Slot(currentTime, availableTable))
         IN  IF slotCount + 1 >= maxSlots
             THEN pushed
             ELSE generateSlots_strict(addMinutes(currentTime, SlotStepMinutes),
                                       slotCount + 1, pushed, lastBookingTime, turnTime,
                                       tables, rs, partySize)
    ELSE slots

\* a slot loop without the slot-count limit
RECURSIVE generateSlots_uncapped(_, _, _, _, _, _, _, _)
generateSlots_uncapped(currentTime, slotCount, slots, lastBookingTime, turnTime, tables, rs, partySize) ==
    IF isBefore(currentTime, lastBookingTime) \/ currentTime = lastBookingTime
    THEN LET slotEndTime == addMinutes(currentTime, turnTime)
             availableTable ==
                 findAvailableTableForSlot(tables, rs, currentTime, slotEndTime, partySize)
             pushed == Append(slots, Slot(currentTime, availableTable))
         IN  generateSlots_uncapped(addMinutes(currentTime, SlotStepMinutes), slotCount + 1,
                                    pushed, lastBookingTime, turnTime, tables, rs, partySize)
    ELSE slots

\* a slot loop that steps by the hour
RECURSIVE generateSlots_hourly(_, _, _, _, _, _, _, _)
generateSlots_hourly(currentTime, slotCount, slots, lastBookingTime, turnTime, tables, rs, partySize) ==
    IF (isBefore(currentTime, lastBookingTime) \/ currentTime = lastBookingTime)
          /\ slotCount < maxSlots
    THEN LET slotEndTime == addMinutes(currentTime, turnTime)
             availableTable ==
                 findAvailableTableForSlot(tables, rs, currentTime, slotEndTime, partySize)
             pushed == Append(slots, Slot(currentTime, availableTable))
         IN  generateSlots_hourly(addMinutes(currentTime, 60), slotCount + 1,
                                  pushed, lastBookingTime, turnTime, tables, rs, partySize)
    ELSE slots

\* the while loop of calculateAvailability, from the state (currentTime, slotCount, slots)
RECURSIVE generateSlots(_, _, _, _, _, _, _, _)
generateSlots(currentTime, slotCount, slots, lastBookingTime, turnTime, tables, rs, partySize) ==
    IF (isBefore(currentTime, lastBookingTime) \/ currentTime = lastBookingTime)
          /\ slotCount < maxSlots
    THEN LET slotEndTime == addMinutes(currentTime, turnTime)
             availableTable ==
                 findAvailableTableForSlot(tables, rs, currentTime, slotEndTime, partySize)
             pushed == Append(slots, Slot(currentTime, availableTable))
         IN  IF slotCount + 1 >= maxSlots
             THEN pushed
             ELSE generateSlots(addMinutes(currentTime, SlotStepMinutes), slotCount + 1,
                                pushed, lastBookingTime, turnTime, tables, rs, partySize)
    ELSE slots

\* the turnTimeRules relation filtered by party size, and `rule?.turnTimeInMinutes || 120`
matchingRules(rules, partySize) ==
    LET matches(r) == r.partySizeMin <= partySize /\ r.partySizeMax >= partySize
    IN  SelectSeq(rules, matches)

resolveTurnTime(rules, partySize) ==
    LET m == matchingRules(rules, partySize)
    IN  IF Len(m) = 0 \/ m[1].turnTimeInMinutes = 0
        THEN DefaultTurnTime
        ELSE m[1].turnTimeInMinutes

\* a date window without the status filter
reservationsOfDate_anyStatus(rs, date) ==
    LET inWindow(r) ==
            /\ r.reservationTime >= At(date, 0, 0)
            /\ r.reservationTime < At(date, 23, 59) + 59
    IN  SelectSeq(rs, inWindow)

\* the reservations relation of calculateAvailability: the date window and the status filter
reservationsOfDate(rs, date) ==
    LET inWindow(r) ==
            /\ r.reservationTime >= At(date, 0, 0)
            /\ r.reservationTime < At(date, 23, 59) + 59
            /\ r.status \in ActiveStatus
    IN  SelectSeq(rs, inWindow)

\* a status filter that forgets the PENDING reservations
activeReservations_confirmedOnly(rs) ==
    LET active(r) == r.status = "CONFIRMED"
    IN  SelectSeq(rs, active)

\* the reservations relation of findAvailableTable: the status filter only
activeReservations(rs) ==
    LET active(r) == r.status \in ActiveStatus
    IN  SelectSeq(rs, active)

\* a day-of-week lookup that is one day ahead
getDay_nextDay(date) == (date + 1) % 7

getDay(date) == date % 7

validClock(hm) == hm[1] >= 0 /\ hm[1] <= 23 /\ hm[2] >= 0 /\ hm[2] <= 59

calculateAvailabilityOn(restaurant, rs, restaurantId, date, partySize) ==
    IF restaurantId # RestaurantId THEN <<>>
    ELSE
    LET dayOfWeek == getDay(date)
        onDay(oh) == oh.dayOfWeek = dayOfWeek
        k == FirstIndex({i \in DOMAIN restaurant.operatingHours :
                            onDay(restaurant.operatingHours[i])})
    IN  IF k = 0 THEN <<>>
        ELSE
        LET operatingHour == restaurant.operatingHours[k]
            turnTime == resolveTurnTime(restaurant.turnTimeRules, partySize)
            openTime == At(date, operatingHour.openTime[1], operatingHour.openTime[2])
            closeTime == At(date, operatingHour.closeTime[1], operatingHour.closeTime[2])
            lastBookingTime == addMinutes(closeTime, -turnTime)
        IN  IF ~validClock(operatingHour.openTime) \/ ~validClock(operatingHour.closeTime)
            THEN <<>>
            ELSE IF isAfter(openTime, closeTime) THEN <<>>
            ELSE IF isAfter(openTime, lastBookingTime) THEN <<>>
            ELSE IF turnTime <= 0 \/ turnTime > MaxTurnTime THEN <<>>
            ELSE generateSlots(openTime, 0, <<>>, lastBookingTime, turnTime,
                               restaurant.tables, reservationsOfDate(rs, date), partySize)

\* a calculation that reads the clock: reservations that already started are ignored
calculateAvailability_fromNow(restaurantId, date, partySize) ==
    LET upcoming(r) == r.reservationTime >= now
    IN  calculateAvailabilityOn(cfg, SelectSeq(reservations, upcoming), restaurantId, date,
                                partySize)

calculateAvailability(restaurantId, date, partySize) ==
    calculateAvailabilityOn(cfg, reservations, restaurantId, date, partySize)

\* a lookup that only loads the reservations starting on the requested day
findAvailableTable_sameDay(restaurantId, reservationTime, partySize, turnTime) ==
    IF restaurantId # RestaurantId THEN NoValue
    ELSE findAvailableTableForSlot(cfg.tables,
              reservationsOfDate(reservations, reservationTime \div SecondsPerDay),
              reservationTime, addMinutes(reservationTime, turnTime), partySize)

findAvailableTable(restaurantId, reservationTime, partySize, turnTime) ==
    IF restaurantId # RestaurantId THEN NoValue
    ELSE findAvailableTableForSlot(cfg.tables, activeReservations(reservations),
                                   reservationTime, addMinutes(reservationTime, turnTime),
                                   partySize)

----------------------------------------------------------------------------
(* POST /api/reservations: validation, restaurant lookup, findAvailableTable,  *)
(* and, in a later step, prisma.reservation.create                          *)

MinPartySize == 1
MaxPartySize == 20

UserId == "u1"

\* the request body: a missing restaurantId or userId is NoValue, a missing
\* reservationTime is None, a missing partySize has hasPartySize = FALSE
RequestOf(rid, time, p, uid, auto) ==
    [restaurantId |-> rid, reservationTime |-> time, hasPartySize |-> TRUE,
     partySize |-> p, userId |-> uid, autoConfirm |-> auto]

WithoutPartySize(req) == [req EXCEPT !.hasPartySize = FALSE, !.partySize = 0]

Request(rid, t, p, auto) == RequestOf(rid, Some(t), p, UserId, auto)

\* a handler that looks the restaurant up before it compares the instant with the clock
POSTcheck_lookupFirst(req) ==
    IF \/ req.restaurantId = NoValue
       \/ req.reservationTime = None
       \/ ~req.hasPartySize
       \/ req.partySize = 0
       \/ req.userId = NoValue
    THEN [result |-> "MissingFields", turnTime |-> 0, tableId |-> NoValue]
    ELSE IF req.partySize < MinPartySize \/ req.partySize > MaxPartySize
    THEN [result |-> "InvalidPartySize", turnTime |-> 0, tableId |-> NoValue]
    ELSE IF req.restaurantId # RestaurantId
    THEN [result |-> "RestaurantNotFound", turnTime |-> 0, tableId |-> NoValue]
    ELSE IF req.reservationTime[1] < now
    THEN [result |-> "PastTime", turnTime |-> 0, tableId |-> NoValue]
    ELSE LET turnTime == resolveTurnTime(cfg.turnTimeRules, req.partySize)
             tableId == findAvailableTable(req.restaurantId, req.reservationTime[1],
                                           req.partySize, turnTime)
         IN  IF tableId = NoValue
             THEN [result |-> "NoAvailability", turnTime |-> turnTime, tableId |-> NoValue]
             ELSE [result |-> "Found", turnTime |-> turnTime, tableId |-> tableId]

\* what POST decides before it writes: an error response, or the table it found
POSTcheck(req) ==
    IF \/ req.restaurantId = NoValue
       \/ req.reservationTime = None
       \/ ~req.hasPartySize
       \/ req.partySize = 0
       \/ req.userId = NoValue
    THEN [result |-> "MissingFields", turnTime |-> 0, tableId |-> NoValue]
    ELSE IF req.partySize < MinPartySize \/ req.partySize > MaxPartySize
    THEN [result |-> "InvalidPartySize", turnTime |-> 0, tableId |-> NoValue]
    ELSE IF req.reservationTime[1] < now
    THEN [result |-> "PastTime", turnTime |-> 0, tableId |-> NoValue]
    ELSE IF req.restaurantId # RestaurantId
    THEN [result |-> "RestaurantNotFound", turnTime |-> 0, tableId |-> NoValue]
    ELSE LET turnTime == resolveTurnTime(cfg.turnTimeRules, req.partySize)
             tableId == findAvailableTable(req.restaurantId, req.reservationTime[1],
                                           req.partySize, turnTime)
         IN  IF tableId = NoValue
             THEN [result |-> "NoAvailability", turnTime |-> turnTime, tableId |-> NoValue]
             ELSE [result |-> "Found", turnTime |-> turnTime, tableId |-> tableId]

Call(req, chk) ==
    [req |-> req, result |-> chk.result, turnTime |-> chk.turnTime, tableId |-> chk.tableId]

\* a request arrives and runs up to the await of prisma.reservation.create
CreateCheck(req) ==
    /\ Len(calls) < NumCalls
    /\ calls' = Append(calls, Call(req, POSTcheck(req)))
    /\ UNCHANGED <<cfg, reservations, now, avail, cancelResp>>

\* a create that stores every reservation as PENDING
CreateWrite_alwaysPending(i) ==
    /\ i \in DOMAIN calls
    /\ calls[i].result = "Found"
    /\ reservations' = Append(reservations,
            Reservation(calls[i].tableId, calls[i].req.reservationTime[1],
                        calls[i].req.partySize, calls[i].turnTime, "PENDING"))
    /\ calls' = [calls EXCEPT ![i].result = "Created"]
    /\ UNCHANGED <<cfg, now, avail, cancelResp>>

\* a create that always stores the first table of the restaurant
CreateWrite_firstTable(i) ==
    /\ i \in DOMAIN calls
    /\ calls[i].result = "Found"
    /\ reservations' = Append(reservations,
            Reservation(cfg.tables[1].id, calls[i].req.reservationTime[1],
                        calls[i].req.partySize, calls[i].turnTime,
                        IF calls[i].req.autoConfirm THEN "CONFIRMED" ELSE "PENDING"))
    /\ calls' = [calls EXCEPT ![i].result = "Created"]
    /\ UNCHANGED <<cfg, now, avail, cancelResp>>

\* prisma.reservation.create with the table found by the earlier read
CreateWrite(i) ==
    /\ i \in DOMAIN calls
    /\ calls[i].result = "Found"
    /\ reservations' = Append(reservations,
            Reservation(calls[i].tableId, calls[i].req.reservationTime[1],
                        calls[i].req.partySize, calls[i].turnTime,
                        IF calls[i].req.autoConfirm THEN "CONFIRMED" ELSE "PENDING"))
    /\ calls' = [calls EXCEPT ![i].result = "Created"]
    /\ UNCHANGED <<cfg, now, avail, cancelResp>>

----------------------------------------------------------------------------
(* PATCH /api/reservations/[id] with action = cancel *)

\* a handler that looks at the cancellation window before the online-cancellation flag
PATCHresult_windowFirst(rs, policy, clock, id) ==
    IF id \notin DOMAIN rs THEN "NotFound"
    ELSE IF rs[id].status = "CANCELLED" THEN "AlreadyCancelled"
    ELSE IF rs[id].status = "COMPLETED" THEN "AlreadyCompleted"
    ELSE IF /\ policy # None
            /\ policy[1].hoursBeforeNoFee # None
            /\ policy[1].hoursBeforeNoFee[1] # 0
            /\ rs[id].reservationTime - clock
                  < policy[1].hoursBeforeNoFee[1] * SecondsPerHour
    THEN "TooLateToCancel"
    ELSE IF policy # None /\ ~policy[1].allowOnlineCancellation
    THEN "OnlineCancellationDisallowed"
    ELSE "Cancelled"

\* the response PATCH gives for reservation id in the store rs under policy at time clock
PATCHresult(rs, policy, clock, id) ==
    IF id \notin DOMAIN rs THEN "NotFound"
    ELSE IF rs[id].status = "CANCELLED" THEN "AlreadyCancelled"
    ELSE IF rs[id].status = "COMPLETED" THEN "AlreadyCompleted"
    ELSE IF policy # None /\ ~policy[1].allowOnlineCancellation
    THEN "OnlineCancellationDisallowed"
    ELSE IF /\ policy # None
            /\ policy[1].hoursBeforeNoFee # None
            /\ policy[1].hoursBeforeNoFee[1] # 0
            /\ rs[id].reservationTime - clock
                  < policy[1].hoursBeforeNoFee[1] * SecondsPerHour
    THEN "TooLateToCancel"
    ELSE "Cancelled"

\* the cancellationPolicy object of the too-late response
PATCHterms(policy) ==
    [hoursBeforeNoFee |-> policy.hoursBeforeNoFee,
     feePercentage |-> policy.feePercentage,
     fixedFeeAmount |-> policy.fixedFeeAmount]

PATCH(id) ==
    LET result == PATCHresult(reservations, cfg.cancellationPolicy, now, id)
    IN  /\ reservations' =
                IF result = "Cancelled"
                THEN [reservations EXCEPT ![id].status = "CANCELLED"]
                ELSE reservations
        /\ cancelResp' = Some(
                [id |-> id, at |-> now, result |-> result,
                 was |-> IF id \in DOMAIN reservations
                         THEN reservations[id].status ELSE NoValue,
                 cancellationPolicy |->
                     IF result = "TooLateToCancel"
                     THEN Some(PATCHterms(cfg.cancellationPolicy[1])) ELSE None])
        /\ UNCHANGED <<cfg, now, calls, avail>>

----------------------------------------------------------------------------
(* GET availability: calculateAvailability as the endpoints call it *)

GetAvailability(rid, date, partySize) ==
    /\ avail' = Some([restaurantId |-> rid, date |-> date, partySize |-> partySize,
                      slots |-> calculateAvailability(rid, date, partySize)])
    /\ UNCHANGED <<cfg, reservations, now, calls, cancelResp>>

\* how a calculateAvailability call ends: it resolves, it rejects (a database
\* error), or it does not settle (the database does not answer)
Outcomes == {"returns", "throws", "hangs"}

TimeoutMs == 5000

someAvailable(slots) == \E i \in DOMAIN slots : slots[i].available

\* status 0 stands for a request that never gets a response
Response(endpoint, rid, date, partySize, outcome, status, slots) ==
    [endpoint |-> endpoint, restaurantId |-> rid, date |-> date, partySize |-> partySize,
     outcome |-> outcome, status |-> status,
     hasAvailability |-> someAvailable(slots), slots |-> slots]

\* GET /api/restaurants/[id]?date=&partySize=: the calculation raced against a timer
GetRestaurant(id, date, partySize, outcome) ==
    /\ avail' = Some(
            IF id # RestaurantId
            THEN Response("restaurant", id, date, partySize, outcome, 404, <<>>)
            ELSE IF outcome = "returns"
            THEN Response("restaurant", id, date, partySize, outcome, 200,
                          calculateAvailability(id, date, partySize))
            ELSE Response("restaurant", id, date, partySize, outcome, 200, <<>>))
    /\ UNCHANGED <<cfg, reservations, now, calls, cancelResp>>

\* GET /api/restaurants?date=&partySize=: the calculation awaited inside Promise.all
SearchRestaurants(date, partySize, outcome) ==
    /\ avail' = Some(
            IF outcome = "returns"
            THEN Response("search", RestaurantId, date, partySize, outcome, 200,
                          calculateAvailability(RestaurantId, date, partySize))
            ELSE IF outcome = "throws"
            THEN Response("search", RestaurantId, date, partySize, outcome, 500, <<>>)
            ELSE Response("search", RestaurantId, date, partySize, outcome, 0, <<>>))
    /\ UNCHANGED <<cfg, reservations, now, calls, cancelResp>>

----------------------------------------------------------------------------
(* The clock *)

Clock == {At(0, 0, 0), At(0, 19, 0), At(0, 19, 1), At(1, 19, 1)}
Late == At(1, 19, 1)

Tick(t) ==
    /\ t > now
    /\ now' = t
    /\ UNCHANGED <<cfg, reservations, calls, avail, cancelResp>>

----------------------------------------------------------------------------
(* Configurations, stored reservations and requests explored *)

SingleTable == <<Table("t1", 2, 4, FALSE)>>
JoinableTables == <<Table("t1", 4, 6, TRUE), Table("t2", 4, 6, TRUE)>>
MixedTables ==
    <<Table("t1", 6, 8, FALSE), Table("t2", 4, 6, TRUE), Table("t3", 4, 6, TRUE),
      Table("t4", 2, 2, FALSE)>>

Restaurant(tables, hours, rules, policy) ==
    [tables |-> tables, operatingHours |-> hours, turnTimeRules |-> rules,
     cancellationPolicy |-> policy]

\* open 17:00-22:00 every day, one table [2,4], 90 minutes for parties of 1..4
Dinner(policy) ==
    Restaurant(SingleTable,
               <<OperatingHours(0, 17, 0, 22, 0), OperatingHours(1, 17, 0, 22, 0)>>,
               <<TurnTimeRule(1, 4, 90)>>, policy)

\* open 00:00-03:00 on day 1, two joinable tables [4,6], 120 minutes for parties of 1..15
LateBar ==
    Restaurant(JoinableTables, <<OperatingHours(1, 0, 0, 3, 0)>>,
               <<TurnTimeRule(1, 15, 120)>>, None)

\* open 00:00-23:59 every day, one table [2,4], 30 minutes for parties of 1..4
AllDay ==
    Restaurant(SingleTable,
               <<OperatingHours(0, 0, 0, 23, 59), OperatingHours(1, 0, 0, 23, 59)>>,
               <<TurnTimeRule(1, 4, 30)>>, None)

\* open 17:00-22:00 every day, a large table, two joinable tables and a small table,
\* 90 minutes for parties of 1..4
Mixed ==
    Restaurant(MixedTables,
               <<OperatingHours(0, 17, 0, 22, 0), OperatingHours(1, 17, 0, 22, 0)>>,
               <<TurnTimeRule(1, 4, 90)>>, None)

\* open oh:om-ch:cm every day, one table [2,4], turn minutes for parties of 1..4
Configured(oh, om, ch, cm, turn) ==
    Restaurant(SingleTable,
               <<OperatingHours(0, oh, om, ch, cm), OperatingHours(1, oh, om, ch, cm)>>,
               <<TurnTimeRule(1, 4, turn)>>, None)

\* configurations at and beyond the limits that calculateAvailability checks
EdgeConfigs ==
    {Configured(17, 0, 22, 0, 0),       \* a rule of zero minutes
     Configured(17, 0, 22, 0, -30),     \* a rule of negative minutes
     Configured(0, 0, 23, 59, 500),     \* a rule above the 480-minute ceiling
     Configured(0, 0, 23, 59, 480),     \* a rule at the ceiling
     Configured(22, 0, 17, 0, 90),      \* opens after it closes
     Configured(17, 0, 18, 0, 90),      \* open for less than one turn
     Configured(17, 0, 18, 30, 90)}     \* open for exactly one turn

Policies ==
    {None, Some(CancellationPolicy(Some(24), FALSE)), Some(CancellationPolicy(None, TRUE)),
     Some(CancellationPolicy(Some(0), TRUE)), Some(CancellationPolicy(Some(24), TRUE))}

Seeded(st) == <<Reservation("t1", At(1, 19, 0), 2, 90, st)>>

Requests ==
    {Request(RestaurantId, At(1, 19, 0), 2, FALSE),
     Request(RestaurantId, At(1, 20, 0), 2, TRUE),
     Request(RestaurantId, At(0, 23, 0), 2, TRUE),
     Request(RestaurantId, At(1, 0, 30), 11, FALSE),
     Request(RestaurantId, At(1, 19, 0), 21, FALSE),
     Request(UnknownRestaurantId, At(1, 19, 0), 2, FALSE)}

PartySizes == {2, 8, 11}

\* request bodies for the validation of POST: party sizes at and around 1..20,
\* instants before and after the clock values, absent fields, an unknown restaurant
CreateRequests ==
    {Request(RestaurantId, At(1, 19, 0), 2, FALSE),
     Request(RestaurantId, At(0, 19, 0), 1, TRUE),
     Request(RestaurantId, At(1, 20, 30), 20, TRUE),
     Request(RestaurantId, At(1, 0, 30), 11, FALSE),
     Request(RestaurantId, At(1, 19, 0), 0, FALSE),
     Request(RestaurantId, At(1, 19, 0), 21, FALSE),
     Request(RestaurantId, At(0, 19, 0), -1, TRUE),
     Request(UnknownRestaurantId, At(1, 19, 0), 20, FALSE),
     Request(UnknownRestaurantId, At(0, 19, 0), 2, TRUE),
     RequestOf(NoValue, Some(At(1, 19, 0)), 2, UserId, FALSE),
     RequestOf(RestaurantId, None, 2, UserId, FALSE),
     RequestOf(RestaurantId, Some(At(1, 19, 0)), 2, NoValue, FALSE),
     WithoutPartySize(Request(RestaurantId, At(1, 19, 0), 2, FALSE))}

----------------------------------------------------------------------------
(* The booking system: concurrent POST requests, cancellations, the clock *)

Init ==
    /\ cfg \in {Dinner(None), LateBar}
    /\ reservations \in {<<>>, Seeded("NO_SHOW")}
    /\ now = At(0, 0, 0)
    /\ calls = <<>>
    /\ avail = None
    /\ cancelResp = None

Next ==
    \/ \E req \in Requests : CreateCheck(req)
    \/ \E i \in 1..NumCalls : CreateWrite(i)
    \/ \E id \in 1..(Len(reservations) + 1) : PATCH(id)
    \/ Tick(Late)

Spec == Init /\ [][Next]_vars

----------------------------------------------------------------------------
(* The availability calculator on its own: a restaurant and a store of     *)
(* reservations drawn from bounded sets, and the queries run against them  *)

StoresOf(c) ==
    IF c.tables = JoinableTables
    THEN {<<>>,
          <<Reservation("t1", At(1, 0, 30), 2, 120, "CONFIRMED")>>,
          <<Reservation("t2", At(1, 0, 30), 2, 120, "PENDING")>>,
          <<Reservation("t1", At(1, 0, 30), 2, 120, "CANCELLED")>>,
          <<Reservation("t1", At(1, 0, 0), 2, 120, "PENDING"),
            Reservation("t2", At(1, 0, 30), 2, 120, "CONFIRMED")>>}
    ELSE IF c.tables = MixedTables
    THEN {<<>>,
          <<Reservation("t4", At(1, 19, 0), 2, 90, "CONFIRMED")>>,
          <<Reservation("t4", At(1, 19, 0), 2, 90, "CANCELLED")>>,
          <<Reservation("t4", At(1, 19, 0), 2, 90, "PENDING"),
            Reservation("t1", At(1, 19, 0), 2, 90, "CONFIRMED")>>,
          <<Reservation("t3", At(1, 19, 0), 5, 120, "CONFIRMED")>>,
          <<Reservation("t1", At(1, 19, 0), 8, 120, "CONFIRMED")>>,
          <<Reservation("t1", At(1, 19, 0), 8, 120, "PENDING"),
            Reservation("t3", At(1, 19, 0), 5, 120, "CONFIRMED")>>}
    ELSE {<<>>} \cup {Seeded(st) : st \in ReservationStatus}
           \cup {<<Reservation("t1", At(1, 17, 0), 2, 90, "PENDING"),
                   Reservation("t1", At(1, 20, 30), 2, 90, "CONFIRMED")>>,
                 <<Reservation("t1", At(1, 18, 0), 2, 90, "PENDING")>>}

InitAvail ==
    /\ cfg \in {Dinner(None), LateBar, AllDay, Mixed} \cup EdgeConfigs
    /\ reservations \in StoresOf(cfg)
    /\ now = At(0, 0, 0)
    /\ calls = <<>>
    /\ avail = None
    /\ cancelResp = None

NextAvail ==
    \/ \E rid \in {RestaurantId, UnknownRestaurantId}, date \in Dates, p \in PartySizes :
          GetAvailability(rid, date, p)
    \/ \E t \in Clock : Tick(t)

SpecAvail == InitAvail /\ [][NextAvail]_vars

----------------------------------------------------------------------------
(* The two endpoints that run the availability calculation, each call      *)
(* ending in one of the three ways the awaited promise can end             *)

NextEndpoints ==
    \/ \E id \in {RestaurantId, UnknownRestaurantId}, date \in Dates, p \in PartySizes,
          outcome \in Outcomes : GetRestaurant(id, date, p, outcome)
    \/ \E date \in Dates, p \in PartySizes, outcome \in Outcomes :
          SearchRestaurants(date, p, outcome)

SpecEndpoints == InitAvail /\ [][NextEndpoints]_vars

----------------------------------------------------------------------------
(* The create handler on its own: every kind of request body against the   *)
(* one-table restaurant and the restaurant with two joinable tables, with  *)
(* the clock moving past the requested instants                            *)

InitCreate ==
    /\ cfg \in {Dinner(None), LateBar}
    /\ reservations \in {<<>>, Seeded("CONFIRMED")}
    /\ now = At(0, 0, 0)
    /\ calls = <<>>
    /\ avail = None
    /\ cancelResp = None

NextCreate ==
    \/ \E req \in CreateRequests : CreateCheck(req)
    \/ \E i \in 1..NumCalls : CreateWrite(i)
    \/ \E t \in Clock : Tick(t)

SpecCreate == InitCreate /\ [][NextCreate]_vars

----------------------------------------------------------------------------
(* The cancel handler on its own: every policy against every status,       *)
(* with the clock moving across the cancellation window                    *)

InitCancel ==
    /\ cfg \in {Dinner(policy) : policy \in Policies}
    /\ reservations \in {Seeded(st) : st \in ReservationStatus}
    /\ now = At(0, 0, 0)
    /\ calls = <<>>
    /\ avail = None
    /\ cancelResp = None

NextCancel ==
    \/ \E id \in 1..(Len(reservations) + 1) : PATCH(id)
    \/ \E t \in Clock : Tick(t)

SpecCancel == InitCancel /\ [][NextCancel]_vars

----------------------------------------------------------------------------
(* Booking, cancelling and booking again: creates for two slots against a  *)
(* store that starts empty or with one reservation in any status           *)

RebookRequests ==
    {Request(RestaurantId, At(1, 19, 0), 2, FALSE),
     Request(RestaurantId, At(1, 0, 30), 11, TRUE)}

InitRebook ==
    /\ cfg \in {Dinner(None), LateBar}
    /\ reservations \in {<<>>} \cup {Seeded(st) : st \in ReservationStatus}
    /\ now = At(0, 0, 0)
    /\ calls = <<>>
    /\ avail = None
    /\ cancelResp = None

NextRebook ==
    \/ \E req \in RebookRequests : CreateCheck(req)
    \/ \E i \in 1..NumCalls : CreateWrite(i)
    \/ \E id \in 1..(Len(reservations) + 1) : PATCH(id)
    \/ Tick(Late)

SpecRebook == InitRebook /\ [][NextRebook]_vars

----------------------------------------------------------------------------
(* Properties *)

IsActive(r) == r.status \in ActiveStatus
EndOf(r) == r.reservationTime + r.turnTimeUsed * SecondsPerMinute

\* half-open intervals [s1, e1) and [s2, e2) share an instant
Overlaps(s1, e1, s2, e2) == s1 < e2 /\ s2 < e1

Finished(c) == c.result # "Found"

\* C1: Invariant I1 under concurrency - in every state reachable by any interleaving
\* of create and cancel calls, no two PENDING/CONFIRMED reservations on the same
\* table have overlapping intervals [reservationTime, reservationTime + turnTimeUsed).
C1_NoDoubleBooking ==
    \A i, j \in DOMAIN reservations :
        (/\ i < j
         /\ IsActive(reservations[i])
         /\ IsActive(reservations[j])
         /\ reservations[i].tableId = reservations[j].tableId)
        => ~Overlaps(reservations[i].reservationTime, EndOf(reservations[i]),
                     reservations[j].reservationTime, EndOf(reservations[j]))

\* N >= 2 create calls for the same restaurant, instant and party size, all answered,
\* against the one-table restaurant whose table was free at the start, nothing cancelled
RaceForOneSlot ==
    /\ cfg.tables = SingleTable
    /\ NumCalls >= 2
    /\ Len(calls) = NumCalls
    /\ cancelResp = None
    /\ \A i \in DOMAIN calls :
          /\ Finished(calls[i])
          /\ calls[i].req.restaurantId = RestaurantId
          /\ calls[i].req.reservationTime = calls[1].req.reservationTime
          /\ calls[i].req.partySize = 2
          /\ calls[i].result \in {"Created", "NoAvailability"}

\* C2: when N >= 2 create calls for the same restaurant, instant and party size race
\* for the only table, exactly one call succeeds and every other call fails with the
\* no-availability outcome.
C2_ExactlyOneWins ==
    RaceForOneSlot =>
        /\ Cardinality({i \in DOMAIN calls : calls[i].result = "Created"}) = 1
        /\ \A i \in DOMAIN calls : calls[i].result \in {"Created", "NoAvailability"}

\* the instant of a slot that calculateAvailability returned for a date
SlotInstant(date, slot) == At(date, slot.time[1], slot.time[2])

\* the instants that calculateAvailability lists with available = false, asked
\* against the restaurant c and the store rs
UnavailableInstantsOn(c, rs, rid, date, p) ==
    {SlotInstant(date, slot) :
        slot \in {s \in Range(calculateAvailabilityOn(c, rs, rid, date, p)) : ~s.available}}

UnavailableInstants(rid, date, p) == UnavailableInstantsOn(cfg, reservations, rid, date, p)

ListedUnavailable(rid, date, p, t) == t \in UnavailableInstants(rid, date, p)

\* this step is the arrival and check of the create request req
CreateStep(req) ==
    /\ Len(calls') = Len(calls) + 1
    /\ calls'[Len(calls')].req = req

\* this step changes the store and cancels no reservation
WriteWithoutCancel ==
    /\ reservations' # reservations
    /\ \A id \in DOMAIN reservations : reservations'[id].status = reservations[id].status

\* the outcome of a create request whose slot is listed unavailable
RefusedAs(req) ==
    IF req.partySize < MinPartySize \/ req.partySize > MaxPartySize THEN "InvalidPartySize"
    ELSE IF req.reservationTime[1] < now THEN "PastTime"
    ELSE "NoAvailability"

\* every slot listed unavailable before the step is listed unavailable after it
StaysUnavailable ==
    \A date \in Dates, p \in {req.partySize : req \in Requests} :
        UnavailableInstants(RestaurantId, date, p)
            \subseteq UnavailableInstantsOn(cfg', reservations', RestaurantId, date, p)

OneBookingAt1900 ==
    /\ cfg = Dinner(None)
    /\ Len(reservations) = 1
    /\ IsActive(reservations[1])
    /\ reservations[1].tableId = "t1"
    /\ reservations[1].reservationTime = At(1, 19, 0)
    /\ reservations[1].partySize = 2
    /\ reservations[1].turnTimeUsed = 90
    /\ avail # None
    /\ avail[1].restaurantId = RestaurantId
    /\ avail[1].date = 1
    /\ avail[1].partySize = 2

TimesWhere(slots, flag) == {slot.time : slot \in {s \in Range(slots) : s.available = flag}}

\* C4 as stated: after one reservation at 19:00 the slots 18:00, 18:30, 19:00 and 19:30
\* are unavailable and 20:00 is available again.
C4_BlockedUntil2000 ==
    OneBookingAt1900 =>
        /\ {<<18, 0>>, <<18, 30>>, <<19, 0>>, <<19, 30>>}
              \subseteq TimesWhere(avail[1].slots, FALSE)
        /\ <<20, 0>> \in TimesWhere(avail[1].slots, TRUE)

\* C4: after one 90-minute reservation at 19:00 the slots 18:00, 18:30, 19:00, 19:30
\* and 20:00 are unavailable, and 20:30 is the first slot after them that is available
\* again; 17:00 and 17:30 stay available.
C4_BlockedUntil2030 ==
    OneBookingAt1900 =>
        /\ TimesWhere(avail[1].slots, FALSE)
              = {<<18, 0>>, <<18, 30>>, <<19, 0>>, <<19, 30>>, <<20, 0>>}
        /\ TimesWhere(avail[1].slots, TRUE) = {<<17, 0>>, <<17, 30>>, <<20, 30>>}

C4_Witness ==
    /\ OneBookingAt1900
    /\ <<19, 0>> \in TimesWhere(avail[1].slots, FALSE)

\* the operating hours of the restaurant on a date, and what follows from them
HoursOn(date) ==
    LET onDay(oh) == oh.dayOfWeek = getDay(date)
    IN  SelectSeq(cfg.operatingHours, onDay)

OpenOn(date) == At(date, HoursOn(date)[1].openTime[1], HoursOn(date)[1].openTime[2])
CloseOn(date) == At(date, HoursOn(date)[1].closeTime[1], HoursOn(date)[1].closeTime[2])
TurnFor(p) == resolveTurnTime(cfg.turnTimeRules, p)
LastBookableStart(date, p) == CloseOn(date) - TurnFor(p) * SecondsPerMinute
SlotStep == SlotStepMinutes * SecondsPerMinute

ValidConfiguration(date, p) ==
    /\ HoursOn(date) # <<>>
    /\ OpenOn(date) <= CloseOn(date)
    /\ OpenOn(date) <= LastBookableStart(date, p)
    /\ TurnFor(p) > 0
    /\ TurnFor(p) <= MaxTurnTime

\* the number of start times openTime + 30k minutes at or before lastBookableStart
GridStarts(date, p) == (LastBookableStart(date, p) - OpenOn(date)) \div SlotStep + 1

\* some table, or some pair of joinable tables, has the capacity for the party
CanSeat(p) ==
    \/ \E i \in DOMAIN cfg.tables : p <= cfg.tables[i].capacityMax
    \/ \E i, j \in DOMAIN cfg.tables :
          /\ i < j
          /\ cfg.tables[i].isJoinable
          /\ cfg.tables[j].isJoinable
          /\ cfg.tables[i].capacityMin + cfg.tables[j].capacityMin <= p
          /\ p <= cfg.tables[i].capacityMax + cfg.tables[j].capacityMax

\* the answer lists exactly the first n grid starts, in order, all available when
\* nothing is reserved and the party can be seated
ListsGridStarts(a, n) ==
    /\ Len(a.slots) = n
    /\ \A k \in 1..n :
          a.slots[k].time = format(OpenOn(a.date) + (k - 1) * SlotStep)
    /\ (reservations = <<>> /\ CanSeat(a.partySize))
          => \A k \in 1..n : a.slots[k].available

Answered(a) ==
    /\ a.restaurantId = RestaurantId
    /\ ValidConfiguration(a.date, a.partySize)

\* C5 as stated: for a valid configuration the answer has exactly one slot for every
\* start time openTime + 30k minutes at or before lastBookableStart.
C5_EveryGridStart ==
    (avail # None /\ Answered(avail[1]))
        => ListsGridStarts(avail[1], GridStarts(avail[1].date, avail[1].partySize))

\* C5: for a valid configuration the answer has exactly one slot for each of the first
\* 30 start times openTime + 30k minutes at or before lastBookableStart, in increasing
\* order; the last bookable start is included when it is among those 30, and with no
\* reservations and a table that can seat the party every slot is available.
C5_GridStartsUpToCap ==
    (avail # None /\ Answered(avail[1]))
        => ListsGridStarts(avail[1],
                           Min(GridStarts(avail[1].date, avail[1].partySize), maxSlots))

C5_Witness ==
    /\ avail # None
    /\ cfg = Dinner(None)
    /\ reservations = <<>>
    /\ avail[1].partySize = 2
    /\ Len(avail[1].slots) = 8
    /\ avail[1].slots[1].time = <<17, 0>>
    /\ avail[1].slots[8].time = <<20, 30>>
    /\ \A k \in 1..8 : avail[1].slots[k].available

\* C6: where the only way to seat the party is the pair of joinable tables, a slot is
\* reported available if and only if neither of the two tables has a PENDING/CONFIRMED
\* reservation overlapping the slot's interval.
C6_JoinAvailability ==
    cfg.tables = JoinableTables =>
        \A date \in Dates :
            \A slot \in Range(calculateAvailability(RestaurantId, date, 11)) :
                slot.available <=>
                    \A r \in Range(reservations) :
                        (IsActive(r) /\ r.tableId \in {"t1", "t2"})
                        => ~Overlaps(SlotInstant(date, slot),
                                     SlotInstant(date, slot) + TurnFor(11) * SecondsPerMinute,
                                     r.reservationTime, EndOf(r))

Policy == cfg.cancellationPolicy
Remaining(id) == reservations[id].reservationTime - now
Rejections ==
    {"NotFound", "AlreadyCancelled", "AlreadyCompleted", "OnlineCancellationDisallowed",
     "TooLateToCancel"}

\* C7: with a policy that allows online cancellation and has hoursBeforeNoFee = H,
\* cancelling a PENDING or CONFIRMED reservation succeeds when the time remaining is
\* H hours or more, and is rejected with the status unchanged when it is less.
C7_CancellationBoundary ==
    [][\A id \in DOMAIN reservations :
         (/\ PATCH(id)
          /\ IsActive(reservations[id])
          /\ Policy # None
          /\ Policy[1].allowOnlineCancellation
          /\ Policy[1].hoursBeforeNoFee # None)
         => IF Remaining(id) >= Policy[1].hoursBeforeNoFee[1] * SecondsPerHour
            THEN reservations'[id].status = "CANCELLED"
            ELSE /\ cancelResp'[1].result = "TooLateToCancel"
                 /\ reservations' = reservations]_vars

TerminalStatus == {"CANCELLED", "COMPLETED", "NO_SHOW"}
LifecycleTransitions ==
    {<<"PENDING", "CONFIRMED">>, <<"PENDING", "CANCELLED">>, <<"CONFIRMED", "CANCELLED">>,
     <<"CONFIRMED", "COMPLETED">>, <<"CONFIRMED", "NO_SHOW">>}

\* C8: CANCELLED, COMPLETED and NO_SHOW are terminal - no step changes such a status -
\* and every status change is one of PENDING->CONFIRMED, PENDING->CANCELLED,
\* CONFIRMED->CANCELLED, CONFIRMED->COMPLETED, CONFIRMED->NO_SHOW.
C8_TerminalStatuses ==
    [][\A id \in DOMAIN reservations :
         /\ reservations[id].status \in TerminalStatus
              => reservations'[id].status = reservations[id].status
         /\ reservations'[id].status # reservations[id].status
              => <<reservations[id].status, reservations'[id].status>>
                    \in LifecycleTransitions]_vars

\* C9: the cancel handler checks its rejections in a fixed order and leaves the store
\* unchanged on each - unknown id, then status CANCELLED, then status COMPLETED (whatever
\* the policy and the time), then a policy that disallows online cancellation (even
\* inside the hoursBeforeNoFee window), and only then the window.
C9_RejectionOrder ==
    [][\A id \in 1..(Len(reservations) + 1) :
         PATCH(id) =>
            LET result == cancelResp'[1].result
                known == id \in DOMAIN reservations
                open == known /\ reservations[id].status \notin {"CANCELLED", "COMPLETED"}
            IN  /\ ~known => result = "NotFound"
                /\ (known /\ reservations[id].status = "CANCELLED")
                      => result = "AlreadyCancelled"
                /\ (known /\ reservations[id].status = "COMPLETED")
                      => result = "AlreadyCompleted"
                /\ (open /\ Policy # None /\ ~Policy[1].allowOnlineCancellation)
                      => result = "OnlineCancellationDisallowed"
                /\ result = "TooLateToCancel"
                      => open /\ Policy # None /\ Policy[1].allowOnlineCancellation
                /\ result \in Rejections => reservations' = reservations]_vars

\* a cancel was refused because online cancellation is disallowed, although the
\* reservation was also inside the hoursBeforeNoFee window
C9_Witness ==
    /\ cancelResp # None
    /\ cancelResp[1].result = "OnlineCancellationDisallowed"
    /\ cancelResp[1].was \in ActiveStatus
    /\ Policy[1].hoursBeforeNoFee # None
    /\ reservations[cancelResp[1].id].reservationTime - cancelResp[1].at
          < Policy[1].hoursBeforeNoFee[1] * SecondsPerHour

\* C10: for a PENDING or CONFIRMED reservation, allowOnlineCancellation = false always
\* rejects; otherwise, if hoursBeforeNoFee is set and the time remaining is below it, the
\* cancel is rejected and the response carries hoursBeforeNoFee, feePercentage and
\* fixedFeeAmount; in every other case the status becomes CANCELLED.
C10_PolicyDecision ==
    [][\A id \in DOMAIN reservations :
         (PATCH(id) /\ IsActive(reservations[id]))
         => IF Policy # None /\ ~Policy[1].allowOnlineCancellation
            THEN /\ cancelResp'[1].result = "OnlineCancellationDisallowed"
                 /\ reservations' = reservations
            ELSE IF /\ Policy # None
                    /\ Policy[1].hoursBeforeNoFee # None
                    /\ Remaining(id) < Policy[1].hoursBeforeNoFee[1] * SecondsPerHour
            THEN /\ cancelResp'[1].result = "TooLateToCancel"
                 /\ cancelResp'[1].cancellationPolicy = Some(PATCHterms(Policy[1]))
                 /\ reservations' = reservations
            ELSE /\ cancelResp'[1].result = "Cancelled"
                 /\ reservations'[id].status = "CANCELLED"]_vars

\* the store without the reservation id
Without(rs, id) == SubSeq(rs, 1, id - 1) \o SubSeq(rs, id + 1, Len(rs))

DateOf(t) == t \div SecondsPerDay

IndexOfTable(tableId) == CHOOSE i \in DOMAIN cfg.tables : cfg.tables[i].id = tableId

\* the tables a reservation occupies: its own table or, for a party that only a
\* joined pair can take, the joinable tables
Seating(r) ==
    IF r.partySize <= cfg.tables[IndexOfTable(r.tableId)].capacityMax
    THEN {r.tableId}
    ELSE {cfg.tables[i].id : i \in {k \in DOMAIN cfg.tables : cfg.tables[k].isJoinable}}

\* some PENDING/CONFIRMED reservation on one of the tables overlaps [s, e)
HeldDuring(tableIds, s, e) ==
    \E r \in Range(reservations) :
        /\ IsActive(r)
        /\ r.tableId \in tableIds
        /\ Overlaps(s, e, r.reservationTime, EndOf(r))

\* C11: a CANCELLED, COMPLETED or NO_SHOW reservation never blocks - the availability
\* answer and the table found by a create are what they would be without it in the
\* store - so once a reservation is cancelled and no PENDING/CONFIRMED reservation holds
\* its table(s) for its interval, the slot at its instant is listed available and a
\* create for that instant and party size, if the instant is not past, finds a table:
\* the freed one, or one listed before it.
C11_InactiveNeverBlocks ==
    \A id \in DOMAIN reservations :
        ~IsActive(reservations[id]) =>
            LET r == reservations[id]
                t == r.reservationTime
                p == r.partySize
                rest == Without(reservations, id)
                chk == POSTcheck(Request(RestaurantId, t, p, FALSE))
                listed == calculateAvailability(RestaurantId, DateOf(t), p)
            IN  /\ listed = calculateAvailabilityOn(cfg, rest, RestaurantId, DateOf(t), p)
                /\ findAvailableTable(RestaurantId, t, p, r.turnTimeUsed)
                      = findAvailableTableForSlot(cfg.tables, activeReservations(rest), t,
                                                  addMinutes(t, r.turnTimeUsed), p)
                /\ ~HeldDuring(Seating(r), t, EndOf(r)) =>
                      /\ \A slot \in Range(listed) :
                            SlotInstant(DateOf(t), slot) = t => slot.available
                      /\ t >= now =>
                            /\ chk.result = "Found"
                            /\ IndexOfTable(chk.tableId) <= IndexOfTable(r.tableId)

\* a reservation made by a create call was cancelled, its slot is listed available
\* again, and a later create call booked the freed table for the same instant
C11_Witness ==
    /\ cancelResp # None
    /\ cancelResp[1].result = "Cancelled"
    /\ cancelResp[1].id = 1
    /\ Len(reservations) = 2
    /\ reservations[1].status = "CANCELLED"
    /\ IsActive(reservations[2])
    /\ reservations[2].tableId = reservations[1].tableId
    /\ reservations[2].reservationTime = reservations[1].reservationTime
    /\ \E slot \in Range(calculateAvailabilityOn(cfg, <<reservations[1]>>, RestaurantId,
                                                DateOf(reservations[1].reservationTime),
                                                reservations[1].partySize)) :
          /\ SlotInstant(DateOf(reservations[1].reservationTime), slot)
                = reservations[1].reservationTime
          /\ slot.available

ValidationErrors == {"MissingFields", "InvalidPartySize", "PastTime"}

\* a required field of the request body is absent
FieldMissing(req) ==
    \/ req.restaurantId = NoValue
    \/ req.reservationTime = None
    \/ ~req.hasPartySize
    \/ req.userId = NoValue

\* the answer to the create request that this step checked
Answer == calls'[Len(calls')]

\* a call that was refused is never written
RefusedStaysRefused(errors) ==
    \A i \in DOMAIN calls : calls[i].result \in errors => calls'[i] = calls[i]

\* C12: a create request that carries every required field is refused with
\* InvalidPartySize when its party size is outside 1..20 and with PastTime when its
\* party size is in range and its instant is earlier than the current time; a request
\* with a required field missing is refused too; a refused request persists nothing,
\* then or later.
C12_ValidationErrors ==
    [][/\ \A req \in CreateRequests :
            CreateStep(req) =>
                /\ reservations' = reservations
                /\ FieldMissing(req) => Answer.result = "MissingFields"
                /\ (~FieldMissing(req)
                       /\ (req.partySize < MinPartySize \/ req.partySize > MaxPartySize))
                      => Answer.result = "InvalidPartySize"
                /\ (~FieldMissing(req)
                       /\ req.partySize \in MinPartySize..MaxPartySize
                       /\ req.reservationTime[1] < now)
                      => Answer.result = "PastTime"
       /\ RefusedStaysRefused(ValidationErrors)]_vars

\* the request carries every required field and a party size in 1..20, and names a
\* restaurant that does not exist
NamesUnknownRestaurant(req) ==
    /\ ~FieldMissing(req)
    /\ req.partySize \in MinPartySize..MaxPartySize
    /\ req.restaurantId # RestaurantId

WriteStep(i) ==
    /\ i \in DOMAIN calls
    /\ calls[i].result = "Found"
    /\ calls'[i].result = "Created"

\* C14: every reservation persisted by a create starts CONFIRMED when the request asked
\* for auto-confirmation and PENDING otherwise; a step that adds a reservation is the
\* write of one call, adds exactly one, and never adds a CANCELLED, COMPLETED or NO_SHOW
\* one.
C14_InitialStatus ==
    [][Len(reservations') > Len(reservations) =>
         /\ Len(reservations') = Len(reservations) + 1
         /\ \E i \in DOMAIN calls : WriteStep(i)
         /\ \A i \in DOMAIN calls :
               WriteStep(i) =>
                  reservations'[Len(reservations')].status
                     = IF calls[i].req.autoConfirm THEN "CONFIRMED" ELSE "PENDING"
         /\ reservations'[Len(reservations')].status \notin TerminalStatus]_vars

\* one create with auto-confirmation and one without were both persisted
C14_Witness ==
    \E i, j \in DOMAIN calls, k, l \in DOMAIN reservations :
        /\ calls[i].result = "Created"
        /\ calls[i].req.autoConfirm
        /\ reservations[k].reservationTime = calls[i].req.reservationTime[1]
        /\ reservations[k].status = "CONFIRMED"
        /\ calls[j].result = "Created"
        /\ ~calls[j].req.autoConfirm
        /\ reservations[l].reservationTime = calls[j].req.reservationTime[1]
        /\ reservations[l].status = "PENDING"

\* the answer held in avail is the answer to this query
SameQuery(rid, date, p) ==
    /\ avail # None
    /\ avail[1].restaurantId = rid
    /\ avail[1].date = date
    /\ avail[1].partySize = p

ClosedOn(date) == \A oh \in Range(cfg.operatingHours) : oh.dayOfWeek # date % 7

ConfiguredTurn(p) ==
    LET m == matchingRules(cfg.turnTimeRules, p)
    IN  IF Len(m) = 0 THEN DefaultTurnTime ELSE m[1].turnTimeInMinutes

ConfigurationFault(date, p) ==
    \/ OpenOn(date) > CloseOn(date)
    \/ OpenOn(date) > CloseOn(date) - ConfiguredTurn(p) * SecondsPerMinute
    \/ ConfiguredTurn(p) <= 0
    \/ ConfiguredTurn(p) > MaxTurnTime

\* C17: calculateAvailability returns the empty slot sequence whenever openTime is after
\* closeTime, or openTime is after closeTime - turnTime, or the turn time configured by
\* the matching rule is zero or negative, or it exceeds 480 minutes.
C17_ConfigurationFaultIsEmpty ==
    (/\ avail # None
     /\ avail[1].restaurantId = RestaurantId
     /\ ~ClosedOn(avail[1].date)
     /\ ConfigurationFault(avail[1].date, avail[1].partySize))
    => avail[1].slots = <<>>

\* C18: the slot loop of calculateAvailability ends with an answer of at most 30 slots
\* for every operating-hours and turn-time configuration, also where closeTime - turnTime
\* lies more than 30 half-hour steps after openTime.
C18_AtMostMaxSlots ==
    avail # None => Len(avail[1].slots) <= maxSlots

\* a configuration with more than 30 half-hour steps between openTime and
\* closeTime - turnTime was answered with exactly 30 slots
C18_Witness ==
    /\ avail # None
    /\ Answered(avail[1])
    /\ GridStarts(avail[1].date, avail[1].partySize) > maxSlots
    /\ Len(avail[1].slots) = maxSlots

\* the caller is told 'no availability': a 200 response with hasAvailability = false
\* and no slots
NoAvailabilityResponse(a) ==
    /\ a.status = 200
    /\ ~a.hasAvailability
    /\ a.slots = <<>>

\* C19: on the single-restaurant endpoint and on the search endpoint alike, when the
\* availability calculation does not settle in time or throws, the caller receives
\* 'no availability' instead of an error response.
C19_FailureMeansNoAvailability ==
    (/\ avail # None
     /\ avail[1].restaurantId = RestaurantId
     /\ avail[1].outcome \in {"throws", "hangs"})
    => NoAvailabilityResponse(avail[1])

TableWithId(tableId) == cfg.tables[IndexOfTable(tableId)]

\* the party size lies in the table's own capacity range
RangeContains(table, p) == table.capacityMin <= p /\ p <= table.capacityMax

\* the table is the first of a pair of joinable tables whose summed range contains p
JoinedPairCovers(tableId, p) ==
    \E i, j \in DOMAIN cfg.tables :
        /\ i < j
        /\ cfg.tables[i].id = tableId
        /\ cfg.tables[i].isJoinable
        /\ cfg.tables[j].isJoinable
        /\ cfg.tables[i].capacityMin + cfg.tables[j].capacityMin <= p
        /\ p <= cfg.tables[i].capacityMax + cfg.tables[j].capacityMax

\* some table whose own range contains p is free for [t, t + turn minutes)
TightTableFree(t, turn, p) ==
    \E k \in DOMAIN cfg.tables :
        /\ RangeContains(cfg.tables[k], p)
        /\ ~HeldDuring({cfg.tables[k].id}, t, t + turn * SecondsPerMinute)

\* the write of a call persists the table the call was assigned, for its party size
PersistsAssignment ==
    \A i \in DOMAIN calls :
        WriteStep(i) =>
            /\ Len(reservations') = Len(reservations) + 1
            /\ reservations'[Len(reservations')].tableId = calls[i].tableId
            /\ reservations'[Len(reservations')].partySize = calls[i].req.partySize

C21_OnlyBookableSlots ==
    (/\ avail # None
     /\ avail[1].endpoint = "search"
     /\ avail[1].outcome = "returns")
    => /\ \A slot \in Range(avail[1].slots) : slot.available
       /\ ~CanSeat(avail[1].partySize)
             => (avail[1].slots = <<>> /\ ~avail[1].hasAvailability)


----------------------------------------------------------------------------
(* Conflict detection *)

\* an answer of calculateAvailability for the one-table restaurant and a party that
\* table seats
OneTableAnswer ==
    /\ avail # None
    /\ "slots" \in DOMAIN avail[1]
    /\ avail[1].restaurantId = RestaurantId
    /\ cfg.tables = SingleTable
    /\ avail[1].partySize <= SingleTable[1].capacityMax

\* some active reservation on the table overlaps [s, e) as half-open intervals
HalfOpenConflict(tableId, s, e) ==
    \E i \in DOMAIN reservations :
        /\ IsActive(reservations[i])
        /\ reservations[i].tableId = tableId
        /\ s < EndOf(reservations[i])
        /\ reservations[i].reservationTime < e

NinetyMinutesAt1800 ==
    /\ OneTableAnswer
    /\ cfg = Dinner(None)
    /\ avail[1].date = 1
    /\ avail[1].partySize = 2
    /\ reservations = <<Reservation("t1", At(1, 18, 0), 2, 90, "PENDING")>>

\* C22: a slot [s, e) conflicts with a reservation [r, r + turnTimeUsed) on the same
\* table if and only if s < r + turnTimeUsed and r < e, so a slot that starts exactly
\* when a reservation ends, or ends exactly when one starts, is free: a 90-minute
\* reservation at 18:00 blocks the 19:00 slot and leaves the 19:30 slot available.
C22_HalfOpenConflict ==
    /\ OneTableAnswer =>
          \A k \in DOMAIN avail[1].slots :
              LET s == SlotInstant(avail[1].date, avail[1].slots[k])
                  e == s + TurnFor(avail[1].partySize) * SecondsPerMinute
              IN  avail[1].slots[k].available <=> ~HalfOpenConflict("t1", s, e)
    /\ NinetyMinutesAt1800 =>
          /\ <<19, 0>> \in TimesWhere(avail[1].slots, FALSE)
          /\ <<19, 30>> \in TimesWhere(avail[1].slots, TRUE)

C22_Witness ==
    /\ NinetyMinutesAt1800
    /\ <<17, 30>> \in TimesWhere(avail[1].slots, FALSE)
    /\ <<19, 30>> \in TimesWhere(avail[1].slots, TRUE)

----------------------------------------------------------------------------
(* Table matcher ranking *)

\* the reservations calculateAvailability hands to the matcher for a date
Loaded(date) == reservationsOfDate(reservations, date)

\* table i has no reservation of rs overlapping [s, e)
FreeAt(rs, i, s, e) ==
    \A r \in Range(rs) :
        r.tableId = cfg.tables[i].id => ~Overlaps(s, e, r.reservationTime, EndOf(r))

IdealTables(rs, s, e, p) ==
    {i \in DOMAIN cfg.tables : RangeContains(cfg.tables[i], p) /\ FreeAt(rs, i, s, e)}

LargerTables(rs, s, e, p) ==
    {i \in DOMAIN cfg.tables : p <= cfg.tables[i].capacityMax /\ FreeAt(rs, i, s, e)}

JoinablePairs(rs, s, e, p) ==
    {ij \in (DOMAIN cfg.tables) \X (DOMAIN cfg.tables) :
        /\ ij[1] < ij[2]
        /\ cfg.tables[ij[1]].isJoinable
        /\ cfg.tables[ij[2]].isJoinable
        /\ FreeAt(rs, ij[1], s, e)
        /\ FreeAt(rs, ij[2], s, e)
        /\ cfg.tables[ij[1]].capacityMin + cfg.tables[ij[2]].capacityMin <= p
        /\ p <= cfg.tables[ij[1]].capacityMax + cfg.tables[ij[2]].capacityMax}

Lowest(S) == CHOOSE i \in S : \A j \in S : i <= j

\* the table the ranking names among the reservations rs: first ideal, else first
\* large enough, else the first table of the first joinable pair, else none
Ranked(rs, s, e, p) ==
    IF IdealTables(rs, s, e, p) # {}
    THEN cfg.tables[Lowest(IdealTables(rs, s, e, p))].id
    ELSE IF LargerTables(rs, s, e, p) # {}
    THEN cfg.tables[Lowest(LargerTables(rs, s, e, p))].id
    ELSE IF JoinablePairs(rs, s, e, p) # {}
    THEN cfg.tables[Lowest({ij[1] : ij \in JoinablePairs(rs, s, e, p)})].id
    ELSE NoValue

AnswerWithSlots ==
    /\ avail # None
    /\ avail[1].restaurantId = RestaurantId
    /\ avail[1].slots # <<>>

\* C23: for every slot the matcher returns the first free table in list order whose
\* capacity range contains the party size, else the first free table with
\* capacityMax >= p, else the first table of the first pair of distinct joinable
\* tables that are both free and whose combined range contains p, else null; so a
\* pair is used only when no single free table is large enough and a non-joinable
\* table is never part of a pair.
C23_MatcherRanking ==
    AnswerWithSlots =>
        \A k \in DOMAIN avail[1].slots :
            LET s == SlotInstant(avail[1].date, avail[1].slots[k])
                e == s + TurnFor(avail[1].partySize) * SecondsPerMinute
            IN  avail[1].slots[k].tableId
                   = Ranked(Loaded(avail[1].date), s, e, avail[1].partySize)

\* the large table is taken at 19:00: a party of 8 gets it at 17:00 and the first
\* table of the joinable pair at 19:00
C23_Witness ==
    /\ AnswerWithSlots
    /\ cfg = Mixed
    /\ avail[1].date = 1
    /\ avail[1].partySize = 8
    /\ reservations = <<Reservation("t1", At(1, 19, 0), 8, 120, "CONFIRMED")>>
    /\ \E k \in DOMAIN avail[1].slots :
          avail[1].slots[k].time = <<17, 0>> /\ avail[1].slots[k].tableId = "t1"
    /\ \E k \in DOMAIN avail[1].slots :
          avail[1].slots[k].time = <<19, 0>> /\ avail[1].slots[k].tableId = "t2"

----------------------------------------------------------------------------
(* Turn-time rules changed while reservations exist *)

\* the TurnTimeRule rows of the restaurant: none, 90, 30 or 0 minutes for parties 1..4
RuleSets ==
    {<<>>, <<TurnTimeRule(1, 4, 90)>>, <<TurnTimeRule(1, 4, 30)>>,
     <<TurnTimeRule(1, 4, 0)>>}

\* the TurnTimeRule rows of the restaurant are replaced
SetTurnTimeRules(rules) ==
    /\ rules # cfg.turnTimeRules
    /\ cfg' = [cfg EXCEPT !.turnTimeRules = rules]
    /\ UNCHANGED <<reservations, now, calls, avail, cancelResp>>

RuleRequests ==
    {Request(RestaurantId, At(1, 19, 0), 2, TRUE),
     Request(RestaurantId, At(1, 20, 0), 2, FALSE)}

InitRules ==
    /\ cfg = Dinner(None)
    /\ reservations = <<>>
    /\ now = At(0, 0, 0)
    /\ calls = <<>>
    /\ avail = None
    /\ cancelResp = None

NextRules ==
    \/ \E req \in RuleRequests : CreateCheck(req)
    \/ \E i \in 1..NumCalls : CreateWrite(i)
    \/ \E rules \in RuleSets : SetTurnTimeRules(rules)
    \/ GetAvailability(RestaurantId, 1, 2)

SpecRules == InitRules /\ [][NextRules]_vars

\* the minutes of the first rule whose range holds the party size, 120 without one
DeclaredTurn(rules, p) ==
    LET hits == {i \in DOMAIN rules :
                    rules[i].partySizeMin <= p /\ p <= rules[i].partySizeMax}
    IN  IF hits = {} THEN 120 ELSE rules[Lowest(hits)].turnTimeInMinutes

\* some stored active reservation on the table blocks [s, e), by its stored turnTimeUsed
BlockedByStored(rs, tableId, s, e) ==
    \E r \in Range(rs) :
        /\ IsActive(r)
        /\ r.tableId = tableId
        /\ Overlaps(s, e, r.reservationTime, EndOf(r))

\* a create resolved its turn time and looked for a table
Resolved(c) == c.result \in {"Found", "NoAvailability"}

\* a calculateAvailability answer whose slots all fit a turn of the given minutes and
\* stop only at the last start that fits or at the cap
SlotsFitTurn(a, minutes) ==
    a.slots # <<>> =>
        /\ \A k \in DOMAIN a.slots :
              SlotInstant(a.date, a.slots[k]) + minutes * SecondsPerMinute
                 <= CloseOn(a.date)
        /\ Len(a.slots) < maxSlots =>
              SlotInstant(a.date, a.slots[Len(a.slots)]) + SlotStep
                 + minutes * SecondsPerMinute > CloseOn(a.date)

\* C24: calculateAvailability and a create both use the minutes of the matching
\* turn-time rule, 120 when no rule matches the party size; a create stores that
\* value as turnTimeUsed; and every conflict check uses the stored turnTimeUsed of the
\* existing reservations, so changing or removing rules never changes the interval
\* an existing reservation blocks.
C24_TurnTimeCaptured ==
    [][/\ Len(calls') > Len(calls) /\ Resolved(Answer) =>
             /\ Answer.turnTime
                   = DeclaredTurn(cfg.turnTimeRules, Answer.req.partySize)
             /\ (Answer.result = "NoAvailability")
                   <=> BlockedByStored(reservations, "t1", Answer.req.reservationTime[1],
                          Answer.req.reservationTime[1]
                             + Answer.turnTime * SecondsPerMinute)
       /\ \A i \in DOMAIN calls :
             WriteStep(i) =>
                reservations'[Len(reservations')].turnTimeUsed = calls[i].turnTime
       /\ \A k \in DOMAIN reservations :
             reservations'[k].turnTimeUsed = reservations[k].turnTimeUsed
       /\ (avail' # avail /\ avail' # None) =>
             /\ SlotsFitTurn(avail'[1], DeclaredTurn(cfg.turnTimeRules, avail'[1].partySize))
             /\ \A k \in DOMAIN avail'[1].slots :
                   LET s == SlotInstant(avail'[1].date, avail'[1].slots[k])
                       e == s + TurnFor(avail'[1].partySize) * SecondsPerMinute
                   IN  avail'[1].slots[k].available
                          <=> ~BlockedByStored(reservations, "t1", s, e)]_vars

----------------------------------------------------------------------------
(* The table a create persists *)

\* the PENDING and CONFIRMED reservations a create reads
ActiveOf(rs) == SelectSeq(rs, IsActive)

TableIds == {cfg.tables[i].id : i \in DOMAIN cfg.tables}

\* C25: every reservation a create persists has a non-null tableId naming a table of
\* the restaurant, the first table of the first conflict-free candidate the matcher
\* found for [instant, instant + turnTime) among the PENDING/CONFIRMED reservations
\* the create read; when the matcher finds no candidate the create answers with no
\* availability and persists nothing.
C25_PersistsMatchedTable ==
    [][/\ Len(calls') > Len(calls) /\ Resolved(Answer) =>
             LET s == Answer.req.reservationTime[1]
                 e == s + Answer.turnTime * SecondsPerMinute
                 candidate == Ranked(ActiveOf(reservations), s, e, Answer.req.partySize)
             IN  /\ Answer.tableId = candidate
                 /\ (Answer.result = "NoAvailability") <=> (candidate = NoValue)
       /\ Len(reservations') > Len(reservations) =>
             /\ Len(reservations') = Len(reservations) + 1
             /\ \E i \in DOMAIN calls :
                   /\ WriteStep(i)
                   /\ reservations'[Len(reservations')].tableId = calls[i].tableId
             /\ reservations'[Len(reservations')].tableId # NoValue
             /\ reservations'[Len(reservations')].tableId \in TableIds
       /\ \A i \in DOMAIN calls :
             calls[i].result = "NoAvailability" => calls'[i] = calls[i]]_vars

\* a create was given the second table because the first was taken, another was
\* refused for lack of a table
C25_Witness ==
    /\ \E k \in DOMAIN reservations :
          /\ reservations[k].tableId = "t2"
          /\ \E i \in DOMAIN calls :
                calls[i].result = "Created" /\ calls[i].tableId = "t2"
    /\ \E i \in DOMAIN calls : calls[i].result = "NoAvailability"

----------------------------------------------------------------------------
(* Calls that run one after another *)

\* POST /api/reservations from the request to the response, nothing in between
POST(req) ==
    /\ Len(calls) < NumCalls
    /\ LET chk == POSTcheck(req)
       IN  IF chk.result = "Found"
           THEN /\ reservations' = Append(reservations,
                        Reservation(chk.tableId, req.reservationTime[1], req.partySize,
                                    chk.turnTime,
                                    IF req.autoConfirm THEN "CONFIRMED" ELSE "PENDING"))
                /\ calls' = Append(calls, [Call(req, chk) EXCEPT !.result = "Created"])
           ELSE /\ reservations' = reservations
                /\ calls' = Append(calls, Call(req, chk))
    /\ UNCHANGED <<cfg, now, avail, cancelResp>>

SeqRequests ==
    {Request(RestaurantId, At(0, 23, 0), 2, TRUE),
     Request(RestaurantId, At(1, 0, 30), 2, FALSE),
     Request(RestaurantId, At(1, 0, 30), 11, TRUE)}

InitSeq ==
    /\ cfg \in {Dinner(None), LateBar}
    /\ reservations = <<>>
    /\ now = At(0, 0, 0)
    /\ calls = <<>>
    /\ avail = None
    /\ cancelResp = None

NextSeq ==
    \/ \E req \in SeqRequests : POST(req)
    \/ \E id \in 1..(Len(reservations) + 1) : PATCH(id)
    \/ \E p \in {2, 11} : GetAvailability(RestaurantId, 1, p)
    \/ Tick(Late)

SpecSeq == InitSeq /\ [][NextSeq]_vars

\* the pairs of active reservations that hold one table at one instant
DoubleBookings ==
    {ij \in (DOMAIN reservations) \X (DOMAIN reservations) :
        /\ ij[1] < ij[2]
        /\ IsActive(reservations[ij[1]])
        /\ IsActive(reservations[ij[2]])
        /\ reservations[ij[1]].tableId = reservations[ij[2]].tableId
        /\ Overlaps(reservations[ij[1]].reservationTime, EndOf(reservations[ij[1]]),
                    reservations[ij[2]].reservationTime, EndOf(reservations[ij[2]]))}

\* C26: when creates and cancels run one after another, each create's read and write
\* completing before the next call starts, and every stored turnTimeUsed is positive,
\* no two PENDING/CONFIRMED reservations with the same tableId overlap.
C26_SequentialNoDoubleBooking ==
    (\A k \in DOMAIN reservations : reservations[k].turnTimeUsed > 0)
        => DoubleBookings = {}

\* a create was refused, or moved to the other table, because of a stored reservation
\* that overlaps it
C26_Witness ==
    \E i \in DOMAIN calls, k \in DOMAIN reservations :
        /\ calls[i].result \in {"NoAvailability", "Created"}
        /\ IsActive(reservations[k])
        /\ reservations[k].tableId = "t1"
        /\ calls[i].tableId # "t1"
        /\ calls[i].req.reservationTime[1] \div SecondsPerDay
              # reservations[k].reservationTime \div SecondsPerDay
        /\ Overlaps(calls[i].req.reservationTime[1],
                    calls[i].req.reservationTime[1] + calls[i].turnTime * SecondsPerMinute,
                    reservations[k].reservationTime, EndOf(reservations[k]))

----------------------------------------------------------------------------
(* The second table of a joined pair *)

\* the active reservations seated on a joined pair that hold [s, e)
JoinedDuring(rs, s, e) ==
    {r \in Range(rs) :
        /\ IsActive(r)
        /\ Seating(r) # {r.tableId}
        /\ Overlaps(s, e, r.reservationTime, EndOf(r))}

\* C27: after a create seats a party on the joined pair (t1, t2), no later create,
\* even in a purely sequential run, assigns t2 to a reservation overlapping the joined
\* reservation's interval, and calculateAvailability does not report t2 as the table
\* of an overlapping slot.
C27_SecondTableHeld ==
    [][/\ (Len(calls') > Len(calls) /\ Answer.result = "Created") =>
             \A r \in JoinedDuring(reservations, Answer.req.reservationTime[1],
                                    Answer.req.reservationTime[1]
                                       + Answer.turnTime * SecondsPerMinute) :
                 Answer.tableId \notin Seating(r)
       /\ (avail' # avail /\ avail' # None) =>
             \A k \in DOMAIN avail'[1].slots :
                 LET s == SlotInstant(avail'[1].date, avail'[1].slots[k])
                     e == s + TurnFor(avail'[1].partySize) * SecondsPerMinute
                 IN  \A r \in JoinedDuring(reservations, s, e) :
                         avail'[1].slots[k].tableId \notin Seating(r)]_vars

----------------------------------------------------------------------------
(* Creates against the slots on offer *)

\* the instants calculateAvailability lists for a date and party size
ListedStarts(date, p) ==
    {SlotInstant(date, slot) : slot \in Range(calculateAvailability(RestaurantId, date, p))}

\* C28: a create only persists reservations calculateAvailability could offer - the
\* restaurant has operating hours on the reservation's day and its start is one of the
\* slot starts listed for that date and party size (at or after openTime, on the
\* 30-minute grid, ending at or before closeTime).
C28_CreatesOnlyListedStarts ==
    [][(Len(calls') > Len(calls) /\ Answer.result = "Created") =>
          LET t == Answer.req.reservationTime[1]
              date == t \div SecondsPerDay
          IN  /\ HoursOn(date) # <<>>
              /\ t \in ListedStarts(date, Answer.req.partySize)]_vars

\* the slots calculateAvailability lists as available at an instant for a party size
OfferedAt(t, p) ==
    {slot \in Range(calculateAvailability(RestaurantId, t \div SecondsPerDay, p)) :
        SlotInstant(t \div SecondsPerDay, slot) = t /\ slot.available}

\* C29: if calculateAvailability lists a slot as available with table T and the slot's
\* instant is not past, a create for that restaurant, instant and party size issued
\* next, with no write in between, succeeds and is assigned T - whatever reservations
\* exist, those that began the day before and run past midnight included.
C29_OfferedSlotIsCreated ==
    [][(/\ Len(calls') > Len(calls)
        /\ Answer.req.restaurantId = RestaurantId
        /\ Answer.req.reservationTime # None
        /\ Answer.req.reservationTime[1] >= now) =>
          \A slot \in OfferedAt(Answer.req.reservationTime[1], Answer.req.partySize) :
              /\ Answer.result = "Created"
              /\ Answer.tableId = slot.tableId]_vars

----------------------------------------------------------------------------
(* Shape of an availability answer *)

\* C30: every slot calculateAvailability returns has its interval
\* [start, start + turnTime) within the operating hours used (start >= openTime and
\* start + turnTime <= closeTime), consecutive slots are exactly 30 minutes apart, and
\* a slot carries a tableId if and only if its available flag is true.
C30_SlotsWithinHours ==
    AnswerWithSlots =>
        LET a == avail[1]
            start(k) == SlotInstant(a.date, a.slots[k])
        IN  /\ \A k \in DOMAIN a.slots :
                  /\ start(k) >= OpenOn(a.date)
                  /\ start(k) + TurnFor(a.partySize) * SecondsPerMinute <= CloseOn(a.date)
                  /\ a.slots[k].available <=> (a.slots[k].tableId # NoValue)
            /\ \A k \in 1..(Len(a.slots) - 1) :
                  start(k + 1) - start(k) = SlotStepMinutes * SecondsPerMinute

\* an answer with available and unavailable slots, the last one ending at closing time
C30_Witness ==
    /\ AnswerWithSlots
    /\ Len(avail[1].slots) > 2
    /\ \E k \in DOMAIN avail[1].slots : avail[1].slots[k].available
    /\ \E k \in DOMAIN avail[1].slots : ~avail[1].slots[k].available
    /\ SlotInstant(avail[1].date, avail[1].slots[Len(avail[1].slots)])
          + TurnFor(avail[1].partySize) * SecondsPerMinute = CloseOn(avail[1].date)
====
